---- MODULE Spec2Model ----
(***************************************************************************)
(* Model of the three demonstration programs                               *)
(*   test-rust-generation-demo/vulnerable.rs        ("iter2", validating)  *)
(*   test-rust-generation-demo/vulnerable_iter1.rs  ("iter1", truncating)  *)
(*   test-start-workflow/vulnerable.rs              ("workflow")           *)
(* A string is modelled as the sequence of its bytes, a Vec<u8> made by    *)
(* vec![0; n] as the record of its length and fill byte, usize as a 31-bit *)
(* unsigned integer (the widest word TLC's integers hold).                 *)
(***************************************************************************)
EXTENDS Integers, Sequences, FiniteSets, TLC

(* ---- bounds of the model ---- *)
MaxByte == 1
MaxCap == 3
MaxSrcLen == 4
MaxArgLen == 12
MaxSmallSize == 3

(* ---- program constants ---- *)
USIZE_MAX == 2147483647
SizeOfU8 == 1
BufferLen == 10
CreateBufferLen == 256
AllocationSize == 1000000000

ISIZE_MAX == USIZE_MAX \div 2

Variants == {"iter2", "iter1", "workflow"}

VARIABLES variant, args, pc, buffer, data, output, calls, err, exit,
          cDest, cSrc, cOut, aSize, aOut

mainVars == <<variant, args, pc, buffer, data, output, calls, err, exit>>
copyVars == <<cDest, cSrc, cOut>>
allocVars == <<aSize, aOut>>
vars == <<variant, args, pc, buffer, data, output, calls, err, exit,
          cDest, cSrc, cOut, aSize, aOut>>

(* ---- values ---- *)
Min(a, b) == IF a <= b THEN a ELSE b

BoundedSeq(S, n) == UNION {[1..k -> S] : k \in 0..n}

\* () , Ok(()) and Err(io::Error::new(kind, msg))
Unit == [tag |-> "Unit", kind |-> "", msg |-> ""]
Ok == [tag |-> "Ok", kind |-> "", msg |-> ""]
Err(kind, msg) == [tag |-> "Err", kind |-> kind, msg |-> msg]
NoResult == [tag |-> "None", kind |-> "", msg |-> ""]

\* [0u8; n]
Zeroed(n) == [i \in 1..n |-> 0]

\* a Vec<u8> of len bytes, each equal to fill; NoBuf: no vector
Buf(len) == [present |-> TRUE, len |-> len, fill |-> 0]
NoBuf == [present |-> FALSE, len |-> 0, fill |-> 0]

\* vec![0u8; size]: a capacity above isize::MAX panics ("capacity overflow"),
\* a request the allocator does not serve (mem = FALSE) aborts the process
VecZeroed(size, mem) ==
  IF size > ISIZE_MAX THEN [how |-> "panic", buf |-> NoBuf]
  ELSE IF ~mem THEN [how |-> "abort", buf |-> NoBuf]
  ELSE [how |-> "return", buf |-> Buf(size)]

\* buf[..n] is in bounds iff n <= buf.len(); otherwise the index panics
SliceToOk(buf, n) == n <= Len(buf)
SliceTo(buf, n) == SubSeq(buf, 1, n)
SliceFrom(buf, n) == SubSeq(buf, n + 1, Len(buf))
\* copy_from_slice panics unless both slices have the same length
CopyFromSliceOk(dst, src) == Len(dst) = Len(src)

(* ---- safe_copy ---- *)
CopyPanic(dest) == [called |-> TRUE, how |-> "panic", dest |-> dest, res |-> NoResult]
CopyReturn(dest, res) == [called |-> TRUE, how |-> "return", dest |-> dest, res |-> res]

\* mutant: the length check comes after the copy of the prefix
safe_copy_iter2_late_check(dest, src) ==
  IF Len(src) > Len(dest)
  THEN CopyReturn(SliceTo(src, Len(dest)), Err("InvalidInput", "Source too large for destination"))
  ELSE CopyReturn(src \o SliceFrom(dest, Len(src)), Ok)

\* mutant: >= for > in the length check
safe_copy_iter2_strict(dest, src) ==
  IF Len(src) >= Len(dest)
  THEN CopyReturn(dest, Err("InvalidInput", "Source too large for destination"))
  ELSE CopyReturn(src \o SliceFrom(dest, Len(src)), Ok)

safe_copy_iter2(dest, src) ==
  IF Len(src) > Len(dest)
  THEN CopyReturn(dest, Err("InvalidInput", "Source too large for destination"))
  ELSE IF ~SliceToOk(dest, Len(src)) THEN CopyPanic(dest)
  ELSE IF ~CopyFromSliceOk(SliceTo(dest, Len(src)), src) THEN CopyPanic(dest)
  ELSE CopyReturn(src \o SliceFrom(dest, Len(src)), Ok)

\* mutant: the length is not clamped to dest.len()
safe_copy_iter1_unclamped(dest, src) ==
  LET len == Len(src) IN
  IF ~SliceToOk(dest, len) \/ ~SliceToOk(src, len) THEN CopyPanic(dest)
  ELSE CopyReturn(SliceTo(src, len) \o SliceFrom(dest, len), Unit)

safe_copy_iter1(dest, src) ==
  LET len == Min(Len(dest), Len(src)) IN
  IF ~SliceToOk(dest, len) \/ ~SliceToOk(src, len) THEN CopyPanic(dest)
  ELSE IF ~CopyFromSliceOk(SliceTo(dest, len), SliceTo(src, len)) THEN CopyPanic(dest)
  ELSE CopyReturn(SliceTo(src, len) \o SliceFrom(dest, len), Unit)

\* mutant: the bytes after the copied prefix are cleared
safe_copy_workflow_zero_tail(dest, src) ==
  LET len == Min(Len(dest), Len(src)) IN
  CopyReturn(SliceTo(src, len) \o [i \in 1..(Len(dest) - len) |-> 0], Unit)

safe_copy_workflow(dest, src) ==
  LET len == Min(Len(dest), Len(src)) IN
  IF ~SliceToOk(dest, len) \/ ~SliceToOk(src, len) THEN CopyPanic(dest)
  ELSE IF ~CopyFromSliceOk(SliceTo(dest, len), SliceTo(src, len)) THEN CopyPanic(dest)
  ELSE CopyReturn(SliceTo(src, len) \o SliceFrom(dest, len), Unit)

(* ---- safe_allocation ---- *)
\* attempted: vec! was reached; made: the vector bound to the local _buffer;
\* ret: the buffer handed to the caller (none: the functions return () or Ok(()))
AllocSkip(res) ==
  [called |-> TRUE, how |-> "return", res |-> res, attempted |-> FALSE,
   made |-> NoBuf, ret |-> NoBuf]
AllocMade(v, res) ==
  [called |-> TRUE, how |-> v.how, res |-> IF v.how = "return" THEN res ELSE NoResult,
   attempted |-> TRUE, made |-> v.buf, ret |-> NoBuf]

\* mutant: no check of size == 0
safe_allocation_iter2_no_zero_check(size, mem) ==
  IF size > USIZE_MAX \div SizeOfU8
  THEN AllocSkip(Err("InvalidInput", "Size too large, potential overflow"))
  ELSE AllocMade(VecZeroed(size, mem), Ok)

\* mutant: >= for > in the overflow check
safe_allocation_iter2_ge(size, mem) ==
  IF size = 0 THEN AllocSkip(Err("InvalidInput", "Size must be positive"))
  ELSE IF size >= USIZE_MAX \div SizeOfU8
  THEN AllocSkip(Err("InvalidInput", "Size too large, potential overflow"))
  ELSE AllocMade(VecZeroed(size, mem), Ok)

\* mutant: the vector is one byte short
safe_allocation_iter2_short(size, mem) ==
  IF size = 0 THEN AllocSkip(Err("InvalidInput", "Size must be positive"))
  ELSE IF size > USIZE_MAX \div SizeOfU8
  THEN AllocSkip(Err("InvalidInput", "Size too large, potential overflow"))
  ELSE AllocMade(VecZeroed(size - 1, mem), Ok)

safe_allocation_iter2(size, mem) ==
  IF size = 0 THEN AllocSkip(Err("InvalidInput", "Size must be positive"))
  ELSE IF size > USIZE_MAX \div SizeOfU8
  THEN AllocSkip(Err("InvalidInput", "Size too large, potential overflow"))
  ELSE AllocMade(VecZeroed(size, mem), Ok)

safe_allocation_iter1(size, mem) ==
  IF size > 0 /\ size < USIZE_MAX \div SizeOfU8
  THEN AllocMade(VecZeroed(size, mem), Unit)
  ELSE AllocSkip(Unit)

safe_allocation_workflow(size, mem) ==
  IF size > 0 THEN AllocMade(VecZeroed(size, mem), Unit) ELSE AllocSkip(Unit)

(* ---- the other helpers ---- *)
\* a printed line: a string literal, or the bytes of a run-time string
Lit(s) == [lit |-> s, bytes |-> <<>>]
Str(b) == [lit |-> "", bytes |-> b]

safe_operation_iter2(out) == [how |-> "return", res |-> Ok, out |-> Append(out, Lit("Safe data"))]
safe_operation_iter1(out) == [how |-> "return", res |-> Unit, out |-> Append(out, Lit("Safe data"))]
safe_memory_demo(out) == [how |-> "return", res |-> Unit, out |-> Append(out, Lit("This is safe"))]

create_buffer_iter2(mem) ==
  LET v == VecZeroed(CreateBufferLen, mem) IN
  [how |-> v.how, res |-> IF v.how = "return" THEN Ok ELSE NoResult, buf |-> v.buf]
create_buffer_iter1(mem) ==
  LET v == VecZeroed(CreateBufferLen, mem) IN
  [how |-> v.how, res |-> IF v.how = "return" THEN Unit ELSE NoResult, buf |-> v.buf]
create_buffer_safe(mem) ==
  LET v == VecZeroed(CreateBufferLen, mem) IN
  [how |-> v.how, res |-> IF v.how = "return" THEN Unit ELSE NoResult, buf |-> v.buf]

print_safe_iter2(input, out) == [how |-> "return", res |-> Ok, out |-> Append(out, Str(input))]
print_safe_iter1(input, out) == [how |-> "return", res |-> Unit, out |-> Append(out, Str(input))]
print_user_input_safe(input, out) == [how |-> "return", res |-> Unit, out |-> Append(out, Str(input))]

(* ---- main ---- *)
\* exit status of the process
ExitCode(e) ==
  CASE e = "success" -> 0
    [] e = "failure" -> 1
    [] e = "panic" -> 101
    [] e = "abort" -> 134
    [] OTHER -> 0 - 1

Call(fn, o) == [fn |-> fn, res |-> o.res]

\* what follows a call: a panic or an abort ends the process; otherwise the
\* next statement runs
Then(o, nextpc) ==
  CASE o.how = "panic" -> pc' = "exited" /\ exit' = "panic" /\ err' = err
    [] o.how = "abort" -> pc' = "exited" /\ exit' = "abort" /\ err' = err
    [] OTHER -> pc' = nextpc /\ exit' = exit /\ err' = err

\* the ? operator of iter2: an Err returns from main at once, and the runtime
\* turns it into exit status 1
Question(o, nextpc) ==
  CASE o.how = "panic" -> pc' = "exited" /\ exit' = "panic" /\ err' = err
    [] o.how = "abort" -> pc' = "exited" /\ exit' = "abort" /\ err' = err
    [] o.how = "return" /\ o.res.tag = "Err" ->
         pc' = "exited" /\ exit' = "failure" /\ err' = o.res
    [] OTHER -> pc' = nextpc /\ exit' = exit /\ err' = err

\* the program name, args[0]
Prog == <<1>>
\* the inputs of a run: an argument of len bytes, none of them NUL
ArgOf(len, seed) == [i \in 1..len |-> 1 + ((i + seed) % (MaxByte + 1))]
ArgLists ==
  {<<Prog>>} \cup {<<Prog, ArgOf(len, seed)>> : len \in 0..MaxArgLen, seed \in 0..MaxByte}

MainIdle ==
  /\ variant = "iter2" /\ args = <<Prog>> /\ pc = "idle"
  /\ buffer = <<>> /\ data = NoBuf /\ output = <<>> /\ calls = <<>>
  /\ err = NoResult /\ exit = "running"
CopyNotCalled == [called |-> FALSE, how |-> "none", dest |-> <<>>, res |-> NoResult]
AllocNotCalled ==
  [called |-> FALSE, how |-> "none", res |-> NoResult, attempted |-> FALSE,
   made |-> NoBuf, ret |-> NoBuf]
CopyIdle == cDest = <<>> /\ cSrc = <<>> /\ cOut = [v \in Variants |-> CopyNotCalled]
AllocIdle == aSize = 0 /\ aOut = [v \in Variants |-> AllocNotCalled]

Init ==
  /\ variant \in Variants
  /\ args \in ArgLists
  /\ pc = "args"
  /\ buffer = <<>>
  /\ data = NoBuf
  /\ output = <<>>
  /\ calls = <<>>
  /\ err = NoResult
  /\ exit = "running"
  /\ CopyIdle /\ AllocIdle

\* ---- vulnerable.rs (iter2)
MainArgs_iter2 ==
  /\ variant = "iter2" /\ pc = "args"
  /\ pc' = IF Len(args) > 1 THEN "safe_copy" ELSE "safe_operation"
  /\ UNCHANGED <<variant, args, buffer, data, output, calls, err, exit, copyVars, allocVars>>

\* mutant: the result of safe_copy is dropped, without ?
MainCopy_iter2_ignored ==
  /\ variant = "iter2" /\ pc = "safe_copy"
  /\ LET o == safe_copy_iter2(Zeroed(BufferLen), args[2]) IN
     /\ buffer' = o.dest
     /\ calls' = Append(calls, Call("safe_copy", o))
     /\ Then(o, "print_safe")
  /\ UNCHANGED <<variant, args, data, output, copyVars, allocVars>>

MainCopy_iter2 ==
  /\ variant = "iter2" /\ pc = "safe_copy"
  /\ LET o == safe_copy_iter2(Zeroed(BufferLen), args[2]) IN
     /\ buffer' = o.dest
     /\ calls' = Append(calls, Call("safe_copy", o))
     /\ Question(o, "print_safe")
  /\ UNCHANGED <<variant, args, data, output, copyVars, allocVars>>

MainPrint_iter2 ==
  /\ variant = "iter2" /\ pc = "print_safe"
  /\ LET o == print_safe_iter2(args[2], output) IN
     /\ output' = o.out
     /\ calls' = Append(calls, Call("print_safe", o))
     /\ Question(o, "safe_operation")
  /\ UNCHANGED <<variant, args, buffer, data, copyVars, allocVars>>

MainOperation_iter2 ==
  /\ variant = "iter2" /\ pc = "safe_operation"
  /\ LET o == safe_operation_iter2(output) IN
     /\ output' = o.out
     /\ calls' = Append(calls, Call("safe_operation", o))
     /\ Question(o, "create_buffer")
  /\ UNCHANGED <<variant, args, buffer, data, copyVars, allocVars>>

MainCreate_iter2 ==
  /\ variant = "iter2" /\ pc = "create_buffer"
  /\ \E mem \in BOOLEAN :
       LET o == create_buffer_iter2(mem) IN
       /\ data' = o.buf
       /\ calls' = Append(calls, Call("create_buffer", o))
       /\ Question(o, "safe_allocation")
  /\ UNCHANGED <<variant, args, buffer, output, copyVars, allocVars>>

MainAlloc_iter2 ==
  /\ variant = "iter2" /\ pc = "safe_allocation"
  /\ \E mem \in BOOLEAN :
       LET o == safe_allocation_iter2(AllocationSize, mem) IN
       /\ calls' = Append(calls, Call("safe_allocation", o))
       /\ Question(o, "done")
  /\ UNCHANGED <<variant, args, buffer, data, output, copyVars, allocVars>>

MainDone_iter2 ==
  /\ variant = "iter2" /\ pc = "done"
  /\ output' = Append(output, Lit("Done"))
  /\ calls' = Append(calls, [fn |-> "println", res |-> Unit])
  /\ pc' = "exited" /\ exit' = "success"
  /\ UNCHANGED <<variant, args, buffer, data, err, copyVars, allocVars>>

\* ---- vulnerable_iter1.rs (iter1)
MainArgs_iter1 ==
  /\ variant = "iter1" /\ pc = "args"
  /\ pc' = IF Len(args) > 1 THEN "safe_copy" ELSE "safe_operation"
  /\ UNCHANGED <<variant, args, buffer, data, output, calls, err, exit, copyVars, allocVars>>

MainCopy_iter1 ==
  /\ variant = "iter1" /\ pc = "safe_copy"
  /\ LET o == safe_copy_iter1(Zeroed(BufferLen), args[2]) IN
     /\ buffer' = o.dest
     /\ calls' = Append(calls, Call("safe_copy", o))
     /\ Then(o, "print_safe")
  /\ UNCHANGED <<variant, args, data, output, copyVars, allocVars>>

\* mutant: the 10-byte buffer is printed for the argument
MainPrint_iter1_buffer ==
  /\ variant = "iter1" /\ pc = "print_safe"
  /\ LET o == print_safe_iter1(buffer, output) IN
     /\ output' = o.out
     /\ calls' = Append(calls, Call("print_safe", o))
     /\ Then(o, "safe_operation")
  /\ UNCHANGED <<variant, args, buffer, data, copyVars, allocVars>>

MainPrint_iter1 ==
  /\ variant = "iter1" /\ pc = "print_safe"
  /\ LET o == print_safe_iter1(args[2], output) IN
     /\ output' = o.out
     /\ calls' = Append(calls, Call("print_safe", o))
     /\ Then(o, "safe_operation")
  /\ UNCHANGED <<variant, args, buffer, data, copyVars, allocVars>>

MainOperation_iter1 ==
  /\ variant = "iter1" /\ pc = "safe_operation"
  /\ LET o == safe_operation_iter1(output) IN
     /\ output' = o.out
     /\ calls' = Append(calls, Call("safe_operation", o))
     /\ Then(o, "create_buffer")
  /\ UNCHANGED <<variant, args, buffer, data, copyVars, allocVars>>

MainCreate_iter1 ==
  /\ variant = "iter1" /\ pc = "create_buffer"
  /\ \E mem \in BOOLEAN :
       LET o == create_buffer_iter1(mem) IN
       /\ data' = o.buf
       /\ calls' = Append(calls, Call("create_buffer", o))
       /\ Then(o, "safe_allocation")
  /\ UNCHANGED <<variant, args, buffer, output, copyVars, allocVars>>

MainAlloc_iter1 ==
  /\ variant = "iter1" /\ pc = "safe_allocation"
  /\ \E mem \in BOOLEAN :
       LET o == safe_allocation_iter1(AllocationSize, mem) IN
       /\ calls' = Append(calls, Call("safe_allocation", o))
       /\ Then(o, "done")
  /\ UNCHANGED <<variant, args, buffer, data, output, copyVars, allocVars>>

MainDone_iter1 ==
  /\ variant = "iter1" /\ pc = "done"
  /\ output' = Append(output, Lit("Done"))
  /\ calls' = Append(calls, [fn |-> "println", res |-> Unit])
  /\ pc' = "exited" /\ exit' = "success"
  /\ UNCHANGED <<variant, args, buffer, data, err, copyVars, allocVars>>

\* ---- test-start-workflow/vulnerable.rs (workflow)
MainArgs_workflow ==
  /\ variant = "workflow" /\ pc = "args"
  /\ pc' = IF Len(args) > 1 THEN "safe_copy" ELSE "safe_operation"
  /\ UNCHANGED <<variant, args, buffer, data, output, calls, err, exit, copyVars, allocVars>>

MainCopy_workflow ==
  /\ variant = "workflow" /\ pc = "safe_copy"
  /\ LET o == safe_copy_workflow(Zeroed(BufferLen), args[2]) IN
     /\ buffer' = o.dest
     /\ calls' = Append(calls, Call("safe_copy", o))
     /\ Then(o, "print_safe")
  /\ UNCHANGED <<variant, args, data, output, copyVars, allocVars>>

MainPrint_workflow ==
  /\ variant = "workflow" /\ pc = "print_safe"
  /\ LET o == print_user_input_safe(args[2], output) IN
     /\ output' = o.out
     /\ calls' = Append(calls, Call("print_user_input_safe", o))
     /\ Then(o, "safe_operation")
  /\ UNCHANGED <<variant, args, buffer, data, copyVars, allocVars>>

MainOperation_workflow ==
  /\ variant = "workflow" /\ pc = "safe_operation"
  /\ LET o == safe_memory_demo(output) IN
     /\ output' = o.out
     /\ calls' = Append(calls, Call("safe_memory_demo", o))
     /\ Then(o, "create_buffer")
  /\ UNCHANGED <<variant, args, buffer, data, copyVars, allocVars>>

MainCreate_workflow ==
  /\ variant = "workflow" /\ pc = "create_buffer"
  /\ \E mem \in BOOLEAN :
       LET o == create_buffer_safe(mem) IN
       /\ data' = o.buf
       /\ calls' = Append(calls, Call("create_buffer_safe", o))
       /\ Then(o, "safe_allocation")
  /\ UNCHANGED <<variant, args, buffer, output, copyVars, allocVars>>

MainAlloc_workflow ==
  /\ variant = "workflow" /\ pc = "safe_allocation"
  /\ \E mem \in BOOLEAN :
       LET o == safe_allocation_workflow(AllocationSize, mem) IN
       /\ calls' = Append(calls, Call("safe_allocation", o))
       /\ Then(o, "done")
  /\ UNCHANGED <<variant, args, buffer, data, output, copyVars, allocVars>>

MainDone_workflow ==
  /\ variant = "workflow" /\ pc = "done"
  /\ output' = Append(output, Lit("Program completed safely"))
  /\ calls' = Append(calls, [fn |-> "println", res |-> Unit])
  /\ pc' = "exited" /\ exit' = "success"
  /\ UNCHANGED <<variant, args, buffer, data, err, copyVars, allocVars>>

Next ==
  \/ MainArgs_iter2 \/ MainCopy_iter2 \/ MainPrint_iter2 \/ MainOperation_iter2
  \/ MainCreate_iter2 \/ MainAlloc_iter2 \/ MainDone_iter2
  \/ MainArgs_iter1 \/ MainCopy_iter1 \/ MainPrint_iter1 \/ MainOperation_iter1
  \/ MainCreate_iter1 \/ MainAlloc_iter1 \/ MainDone_iter1
  \/ MainArgs_workflow \/ MainCopy_workflow \/ MainPrint_workflow \/ MainOperation_workflow
  \/ MainCreate_workflow \/ MainAlloc_workflow \/ MainDone_workflow

Spec == Init /\ [][Next]_vars

\* main is sequential code: a statement that can run does run
FairSpec == Init /\ [][Next]_vars /\ WF_vars(Next)

(* ---- safe_copy on its own: any destination, any source ---- *)
Bytes == 0..MaxByte

InitCopy ==
  /\ MainIdle /\ AllocIdle
  /\ cDest \in BoundedSeq(Bytes, MaxCap)
  /\ cSrc \in BoundedSeq(Bytes, MaxSrcLen)
  /\ cOut = [v \in Variants |-> CopyNotCalled]

CallCopy_iter2 ==
  /\ ~cOut["iter2"].called
  /\ cOut' = [cOut EXCEPT !["iter2"] = safe_copy_iter2(cDest, cSrc)]
  /\ UNCHANGED <<cDest, cSrc, mainVars, allocVars>>

CallCopy_iter1 ==
  /\ ~cOut["iter1"].called
  /\ cOut' = [cOut EXCEPT !["iter1"] = safe_copy_iter1(cDest, cSrc)]
  /\ UNCHANGED <<cDest, cSrc, mainVars, allocVars>>

CallCopy_workflow ==
  /\ ~cOut["workflow"].called
  /\ cOut' = [cOut EXCEPT !["workflow"] = safe_copy_workflow(cDest, cSrc)]
  /\ UNCHANGED <<cDest, cSrc, mainVars, allocVars>>

NextCopy == CallCopy_iter2 \/ CallCopy_iter1 \/ CallCopy_workflow

SpecCopy == InitCopy /\ [][NextCopy]_vars

(* ---- safe_allocation on its own: any size of the word ---- *)
AllocSizes ==
  (0..MaxSmallSize) \cup
  {CreateBufferLen, AllocationSize, ISIZE_MAX, ISIZE_MAX + 1, USIZE_MAX - 1, USIZE_MAX}

InitAlloc ==
  /\ MainIdle /\ CopyIdle
  /\ aSize \in AllocSizes
  /\ aOut = [v \in Variants |-> AllocNotCalled]

CallAlloc_iter2 ==
  /\ ~aOut["iter2"].called
  /\ \E mem \in BOOLEAN :
       aOut' = [aOut EXCEPT !["iter2"] = safe_allocation_iter2(aSize, mem)]
  /\ UNCHANGED <<aSize, mainVars, copyVars>>

CallAlloc_iter1 ==
  /\ ~aOut["iter1"].called
  /\ \E mem \in BOOLEAN :
       aOut' = [aOut EXCEPT !["iter1"] = safe_allocation_iter1(aSize, mem)]
  /\ UNCHANGED <<aSize, mainVars, copyVars>>

CallAlloc_workflow ==
  /\ ~aOut["workflow"].called
  /\ \E mem \in BOOLEAN :
       aOut' = [aOut EXCEPT !["workflow"] = safe_allocation_workflow(aSize, mem)]
  /\ UNCHANGED <<aSize, mainVars, copyVars>>

NextAlloc == CallAlloc_iter2 \/ CallAlloc_iter1 \/ CallAlloc_workflow

SpecAlloc == InitAlloc /\ [][NextAlloc]_vars

(* ======================= the claims ======================= *)
Truncating == {"iter1", "workflow"}
TooLarge == Err("InvalidInput", "Size too large, potential overflow")
NotPositive == Err("InvalidInput", "Size must be positive")
SourceTooLarge == Err("InvalidInput", "Source too large for destination")

\* the result leaves the bytes from index n + 1 on as they were in cDest
RestUntouched(o, n) ==
  /\ Len(o.dest) = Len(cDest)
  /\ \A i \in (n + 1)..Len(cDest) : o.dest[i] = cDest[i]
\* the first n bytes of the result are the first n bytes of cSrc
PrefixCopied(o, n) ==
  \A i \in 1..n : i <= Len(o.dest) /\ o.dest[i] = cSrc[i]

\* C1: a truncating safe_copy returns without a panic for every capacity C
\* and length L; afterwards the first min(C, L) bytes of dest are those of
\* src, the other bytes of dest are as before, dest still has C bytes, and
\* src is as before.
C1_TruncatingCopy ==
  [][\A v \in Truncating :
       (~cOut[v].called /\ cOut'[v].called) =>
         LET n == Min(Len(cDest), Len(cSrc)) IN
         /\ cOut'[v].how = "return"
         /\ PrefixCopied(cOut'[v], n)
         /\ RestUntouched(cOut'[v], n)
         /\ cSrc' = cSrc]_vars

C1_Witness ==
  /\ cOut["iter1"].called /\ cOut["workflow"].called
  /\ Len(cSrc) > Len(cDest) /\ Len(cDest) > 0
  /\ cOut["iter1"].dest # cDest
  /\ cOut["iter1"].dest = SubSeq(cSrc, 1, Len(cDest))

\* C2: the validating safe_copy, given a source longer than the destination,
\* returns the InvalidInput error "Source too large for destination" and
\* leaves every byte of dest as it was.
C2_ValidatingRejects ==
  (cOut["iter2"].called /\ Len(cSrc) > Len(cDest)) =>
    /\ cOut["iter2"].how = "return"
    /\ cOut["iter2"].res = SourceTooLarge
    /\ cOut["iter2"].res.kind = "InvalidInput"
    /\ cOut["iter2"].dest = cDest

C2_Witness ==
  /\ cOut["iter2"].called /\ Len(cSrc) > Len(cDest) /\ Len(cDest) > 0
  /\ cOut["iter2"].res.tag = "Err"
  /\ SubSeq(cSrc, 1, Len(cDest)) # cDest

\* C3: the validating safe_copy, given a source that fits (L <= C, L = 0 and
\* L = C included), returns Ok, the first L bytes of dest are src and the
\* other C - L bytes are as before.
C3_ValidatingCopies ==
  (cOut["iter2"].called /\ Len(cSrc) <= Len(cDest)) =>
    /\ cOut["iter2"].how = "return"
    /\ cOut["iter2"].res = Ok
    /\ PrefixCopied(cOut["iter2"], Len(cSrc))
    /\ RestUntouched(cOut["iter2"], Len(cSrc))

C3_Witness ==
  /\ cOut["iter2"].called /\ Len(cSrc) = Len(cDest) /\ Len(cSrc) > 0
  /\ cOut["iter2"].res = Ok
  /\ cOut["iter2"].dest = cSrc /\ cSrc # cDest

\* C4 as claimed: safe_allocation(0) returns the InvalidInput error "Size must
\* be positive" and allocates nothing, in every file that defines it.
C4_Original ==
  \A v \in Variants :
    (aOut[v].called /\ aSize = 0) =>
      aOut[v].res = NotPositive /\ ~aOut[v].attempted

\* C4 as amended: safe_allocation(0) allocates nothing in any file; it
\* returns the InvalidInput error "Size must be positive" in vulnerable.rs
\* (iter2) and returns () without an error in the two other files.
C4_ZeroSize ==
  \A v \in Variants :
    (aOut[v].called /\ aSize = 0) =>
      /\ aOut[v].how = "return"
      /\ ~aOut[v].attempted /\ aOut[v].made = NoBuf
      /\ aOut[v].res = IF v = "iter2" THEN NotPositive ELSE Unit

C4_Witness ==
  /\ aSize = 0
  /\ aOut["iter2"].called /\ aOut["iter2"].res.kind = "InvalidInput"
  /\ aOut["iter1"].called /\ aOut["iter1"].res = Unit

\* C5: safe_allocation returns the error "Size too large, potential overflow"
\* exactly when size times the element size exceeds the largest usize, and
\* it does not reach vec! for such a size.
Overflows(size) == size * SizeOfU8 > USIZE_MAX
C5_OverflowGuard ==
  \A v \in Variants :
    aOut[v].called =>
      /\ (aOut[v].res = TooLarge) <=> Overflows(aSize)
      /\ Overflows(aSize) => ~aOut[v].attempted

C5_Witness ==
  /\ aSize = USIZE_MAX
  /\ aOut["iter2"].called /\ aOut["iter2"].attempted
  /\ aOut["iter2"].res # TooLarge

\* C6 as claimed: for a positive size whose byte count does not overflow,
\* safe_allocation of vulnerable.rs succeeds and hands its caller a
\* zero-filled buffer of exactly size bytes (an allocator that serves the
\* request is taken for granted).
C6_Original ==
  (aOut["iter2"].called /\ aSize > 0 /\ ~Overflows(aSize) /\ aOut["iter2"].how # "abort") =>
    /\ aOut["iter2"].res = Ok
    /\ aOut["iter2"].ret = Buf(aSize)

\* C6 as amended: for 0 < size <= isize::MAX (1_000_000_000 included)
\* safe_allocation of vulnerable.rs either aborts because the allocator
\* fails, or makes a zero-filled vector of exactly size bytes, drops it and
\* returns Ok(()); for a larger size vec! panics; the caller never receives
\* a buffer.
C6_AllocatesAndDrops ==
  (aOut["iter2"].called /\ aSize > 0 /\ ~Overflows(aSize)) =>
    /\ aOut["iter2"].attempted
    /\ aOut["iter2"].ret = NoBuf
    /\ IF aSize <= ISIZE_MAX
       THEN \/ aOut["iter2"].how = "abort" /\ aOut["iter2"].made = NoBuf
            \/ /\ aOut["iter2"].how = "return" /\ aOut["iter2"].res = Ok
               /\ aOut["iter2"].made = [present |-> TRUE, len |-> aSize, fill |-> 0]
       ELSE aOut["iter2"].how = "panic" /\ aOut["iter2"].made = NoBuf

C6_Witness ==
  /\ aSize = AllocationSize
  /\ aOut["iter2"].called /\ aOut["iter2"].res = Ok
  /\ aOut["iter2"].made.len = AllocationSize /\ aOut["iter2"].made.fill = 0
  /\ ~aOut["iter2"].ret.present

\* C9: on a source that fits (L <= C) the truncating and the validating
\* safe_copy leave dest in the same state and the validating one returns Ok;
\* when L > C the truncating one leaves the first C bytes of src in dest and
\* the validating one leaves dest as it was and returns the error.
C9_CopyEquivalence ==
  \A v \in Truncating :
    (cOut[v].called /\ cOut["iter2"].called) =>
      /\ cOut[v].how = "return" /\ cOut["iter2"].how = "return"
      /\ IF Len(cSrc) <= Len(cDest)
         THEN cOut[v].dest = cOut["iter2"].dest /\ cOut["iter2"].res = Ok
         ELSE /\ cOut[v].dest = SubSeq(cSrc, 1, Len(cDest))
              /\ cOut["iter2"].dest = cDest
              /\ cOut["iter2"].res.tag = "Err"
      /\ (cOut[v].dest # cOut["iter2"].dest) => Len(cSrc) > Len(cDest)

C9_Witness ==
  /\ cOut["iter1"].called /\ cOut["iter2"].called
  /\ 0 < Len(cSrc) /\ Len(cSrc) < Len(cDest)
  /\ cOut["iter1"].dest = cOut["iter2"].dest
  /\ cOut["iter1"].dest # cDest
  /\ cOut["iter2"].res = Ok

\* C10 as claimed: for every size of the word the three safe_allocation
\* either all reach vec! or none of them does.
C10_SameDecision ==
  (\A v \in Variants : aOut[v].called) =>
    \A v, w \in Variants : aOut[v].attempted = aOut[w].attempted

(* ---- the runs of main ---- *)
Range(f) == {f[i] : i \in DOMAIN f}
IsPrefix(s, t) == Len(s) <= Len(t) /\ SubSeq(t, 1, Len(s)) = s
HasArg == Len(args) > 1

\* the step of main a called function stands for
StepOf(fn) ==
  CASE fn = "safe_copy" -> "copy"
    [] fn \in {"print_safe", "print_user_input_safe"} -> "print"
    [] fn \in {"safe_operation", "safe_memory_demo"} -> "demo"
    [] fn \in {"create_buffer", "create_buffer_safe"} -> "create"
    [] fn = "safe_allocation" -> "alloc"
    [] fn = "println" -> "done"
    [] OTHER -> "none"
Steps == [i \in 1..Len(calls) |-> StepOf(calls[i].fn)]
ExpectedSteps ==
  (IF HasArg THEN <<"copy", "print">> ELSE <<>>) \o <<"demo", "create", "alloc", "done">>
DemoLine == IF variant = "workflow" THEN Lit("This is safe") ELSE Lit("Safe data")
DoneLine == IF variant = "workflow" THEN Lit("Program completed safely") ELSE Lit("Done")
ExpectedOutput ==
  (IF HasArg THEN <<Str(args[2])>> ELSE <<>>) \o <<DemoLine, DoneLine>>
\* the 10-byte buffer after the bounded copy of the argument
ExpectedBuffer ==
  LET n == Min(BufferLen, Len(args[2])) IN
  [i \in 1..BufferLen |-> IF i <= n THEN args[2][i] ELSE 0]
\* the argument fits the validating variant's buffer, or the variant truncates
Fits == variant = "iter2" => (HasArg => Len(args[2]) <= BufferLen)

\* C7 as claimed: every run, of every variant and with every argument, ends
\* having done all the steps in order, the completion message last (an
\* allocator that serves the requests is taken for granted).
C7_Original ==
  (pc = "exited" /\ exit # "abort") =>
    /\ Steps = ExpectedSteps
    /\ output # <<>> /\ output[Len(output)] = DoneLine

C7_Order ==
  /\ IsPrefix(Steps, ExpectedSteps)
  /\ IsPrefix(output, ExpectedOutput)
  /\ ("copy" \in Range(Steps) /\ Fits) => buffer = ExpectedBuffer
  /\ "create" \in Range(Steps) =>
       (exit = "abort" \/ data = [present |-> TRUE, len |-> CreateBufferLen, fill |-> 0])
  /\ exit = "success" =>
       /\ Steps = ExpectedSteps /\ output = ExpectedOutput
       /\ output[Len(output)] = DoneLine
  /\ (pc = "exited" /\ Fits) => exit \in {"success", "abort"}
  /\ (pc = "exited" /\ ~Fits) =>
       Steps = <<"copy">> /\ output = <<>> /\ exit = "failure"

\* C7 as amended: in the two truncating variants with every argument, and in
\* the validating variant when the argument is absent or at most 10 bytes
\* long, the steps happen in the order [copy of the first min(10, L) bytes
\* into the 10-byte buffer, print of the argument verbatim - with an
\* argument only], demo print, 256-byte buffer, safe_allocation(1000000000),
\* completion message, and the run ends either aborted by a failed
\* allocation or with the completion message as its last output; the
\* validating variant with a longer argument stops at safe_copy, prints
\* nothing and exits with status 1.
C7_OrderedRun ==
  /\ []C7_Order
  /\ (Fits => <>(pc = "exited" /\ exit \in {"success", "abort"}))
  /\ (~Fits => <>(pc = "exited" /\ exit = "failure"))

C7_Witness ==
  /\ variant = "iter1" /\ HasArg /\ Len(args[2]) > BufferLen
  /\ exit = "success" /\ Steps = ExpectedSteps
  /\ output = <<Str(args[2]), Lit("Safe data"), Lit("Done")>>
  /\ buffer = SubSeq(args[2], 1, BufferLen)

\* C8: in vulnerable.rs (iter2) a step that returns an error is the last
\* step of the run: main ends there with that error and a non-zero exit
\* status, "Done" is not printed; the exit status is 0 only after every step
\* has succeeded.
C8_FailFast ==
  variant = "iter2" =>
    /\ \A i \in 1..Len(calls) :
         calls[i].res.tag = "Err" =>
           /\ i = Len(calls)
           /\ pc = "exited" /\ exit = "failure" /\ ExitCode(exit) # 0
           /\ err = calls[i].res
           /\ Lit("Done") \notin Range(output)
    /\ err.tag = "Err" => (calls # <<>> /\ calls[Len(calls)].res = err)
    /\ (pc = "exited" /\ ExitCode(exit) = 0) =>
         /\ \A i \in 1..Len(calls) : calls[i].res.tag \in {"Ok", "Unit"}
         /\ Steps = ExpectedSteps
         /\ output[Len(output)] = Lit("Done")

C8_Witness ==
  /\ variant = "iter2" /\ pc = "exited" /\ exit = "failure"
  /\ calls = <<[fn |-> "safe_copy", res |-> SourceTooLarge]>>
  /\ err = SourceTooLarge /\ output = <<>>

====
